---- MODULE Spec2Model ----
(***************************************************************************)
(* Model of the xmake-rs link-chain fixtures:                              *)
(*   xmakers-repo/projects/bar/bar/bar.h   (BAR_PUBLIC_API, decl of bar)   *)
(*   xmakers-repo/projects/foo/foo/foo.h   (FOO_PUBLIC_API, decl of foo)   *)
(*   tests/packages/sht-shf-shb/src/target.c (TARGET_PUBLIC_API, target)   *)
(*                                                                         *)
(* The same sources are built twice, side by side: build "one" with an     *)
(* arbitrary set of command-line macro definitions, build "two" with the   *)
(* same set except that BAR_STATIC and TARGET_STATIC are toggled.          *)
(*   SpecHeaders : each build preprocesses target.c (with bar.h) and       *)
(*                 foo.h;                                                  *)
(*   Spec        : each build preprocesses target.c and a caller then      *)
(*                 invokes target() repeatedly, executed line by line      *)
(*                 (foo is not part of target's link chain).               *)
(***************************************************************************)
EXTENDS Integers, Sequences, FiniteSets, TLC

----------------------------------------------------------------------------
(* Bounds *)

\* number of invocations of target() the caller makes in one process
MaxCalls == 2
\* bar() may return any value within MaxDelta of the documented sentinel
MaxDelta == 1

----------------------------------------------------------------------------
(* Program constants *)

\* target.c:28  assert(b == 456)
BarSentinel == 456
\* target.c:29  return 789
TargetSentinel == 789

\* the attribute texts the macros expand to
DllExportAttr == "__declspec(dllexport)"
DllImportAttr == "__declspec(dllimport)"
GnuDefaultAttr == "[[gnu::visibility(\"default\")]]"
NoAttr == ""
\* a macro name that no processed #define has introduced
Undefined == "<undefined>"
\* a function whose declaration line was not processed
NoDecl == "<no declaration>"

\* the macro names whose definedness the sources test
Macros ==
  {"_WIN32", "NDEBUG",
   "XMAKERS_BAR_H", "XMAKERS_FOO_H",
   "BAR_STATIC", "BAR_BUILD",
   "FOO_STATIC", "FOO_BUILD",
   "TARGET_STATIC", "TARGET_BUILD"}

Builds == {"one", "two"}

\* values the call  bar()  at target.c:27 may produce (bar's body is not
\* part of these files; every int near the sentinel is allowed)
BarValues == (BarSentinel - MaxDelta) .. (BarSentinel + MaxDelta)

\* content of the local  b  before line 27 has run
Undef == -1

----------------------------------------------------------------------------
(* bar.h : the preprocessor conditionals, D = set of defined macro names.  *)
(* Line 1, #ifndef XMAKERS_BAR_H, encloses the whole file: with the guard   *)
(* name already defined no #define and no declaration of it is processed.   *)

\* mutant: the  #ifndef BAR_STATIC  guard is lost on the export side
BAR_DLL_EXPORT_Unguarded(D) ==
  IF "XMAKERS_BAR_H" \in D THEN Undefined
  ELSE IF "_WIN32" \in D THEN DllExportAttr ELSE GnuDefaultAttr

BAR_DLL_EXPORT(D) ==
  IF "XMAKERS_BAR_H" \in D THEN Undefined
  ELSE IF "BAR_STATIC" \notin D
    THEN IF "_WIN32" \in D THEN DllExportAttr ELSE GnuDefaultAttr
    ELSE NoAttr

\* mutant: the consuming side is left undecorated off Windows
BAR_DLL_IMPORT_Bare(D) ==
  IF "XMAKERS_BAR_H" \in D THEN Undefined
  ELSE IF "BAR_STATIC" \notin D
    THEN IF "_WIN32" \in D THEN DllImportAttr ELSE NoAttr
    ELSE NoAttr

BAR_DLL_IMPORT(D) ==
  IF "XMAKERS_BAR_H" \in D THEN Undefined
  ELSE IF "BAR_STATIC" \notin D
    THEN IF "_WIN32" \in D THEN DllImportAttr ELSE GnuDefaultAttr
    ELSE NoAttr

\* mutant: the role test reads another library's flag (header copied from
\* foo.h with one name left unchanged)
BAR_PUBLIC_API_FooFlag(D) ==
  IF "XMAKERS_BAR_H" \in D THEN Undefined
  ELSE IF "FOO_BUILD" \in D THEN BAR_DLL_EXPORT(D) ELSE BAR_DLL_IMPORT(D)

BAR_PUBLIC_API(D) ==
  IF "XMAKERS_BAR_H" \in D THEN Undefined
  ELSE IF "BAR_BUILD" \in D THEN BAR_DLL_EXPORT(D) ELSE BAR_DLL_IMPORT(D)

\* line 23:  BAR_PUBLIC_API int bar();  - the attribute the declaration of
\* bar carries, NoDecl when the include guard (line 1) skips the header
bar_declaration(D) ==
  IF "XMAKERS_BAR_H" \in D THEN NoDecl ELSE BAR_PUBLIC_API(D)

----------------------------------------------------------------------------
(* foo.h *)

FOO_DLL_EXPORT(D) ==
  IF "XMAKERS_FOO_H" \in D THEN Undefined
  ELSE IF "FOO_STATIC" \notin D
    THEN IF "_WIN32" \in D THEN DllExportAttr ELSE GnuDefaultAttr
    ELSE NoAttr

FOO_DLL_IMPORT(D) ==
  IF "XMAKERS_FOO_H" \in D THEN Undefined
  ELSE IF "FOO_STATIC" \notin D
    THEN IF "_WIN32" \in D THEN DllImportAttr ELSE GnuDefaultAttr
    ELSE NoAttr

\* mutant: #ifdef written as #ifndef, the two roles swapped
FOO_PUBLIC_API_Swapped(D) ==
  IF "XMAKERS_FOO_H" \in D THEN Undefined
  ELSE IF "FOO_BUILD" \notin D THEN FOO_DLL_EXPORT(D) ELSE FOO_DLL_IMPORT(D)

FOO_PUBLIC_API(D) ==
  IF "XMAKERS_FOO_H" \in D THEN Undefined
  ELSE IF "FOO_BUILD" \in D THEN FOO_DLL_EXPORT(D) ELSE FOO_DLL_IMPORT(D)

\* line 23:  FOO_PUBLIC_API int foo();
foo_declaration(D) ==
  IF "XMAKERS_FOO_H" \in D THEN NoDecl ELSE FOO_PUBLIC_API(D)

----------------------------------------------------------------------------
(* target.c : preprocessor part *)

\* mutant: line 1 is missing, the command line's NDEBUG survives
UndefNDEBUG_Missing(D) == D

\* line 1:  #undef NDEBUG
UndefNDEBUG(D) == D \ {"NDEBUG"}

\* mutant: the check is compiled in only for the static variant
assert_enabled_StaticOnly(D) == "NDEBUG" \notin D /\ "TARGET_STATIC" \in D

\* line 2:  #include <assert.h> ; assert() is active iff NDEBUG is not
\* defined at the point of inclusion
assert_enabled(D) == "NDEBUG" \notin D

TARGET_DLL_EXPORT(D) ==
  IF "TARGET_STATIC" \notin D
    THEN IF "_WIN32" \in D THEN DllExportAttr ELSE GnuDefaultAttr
    ELSE NoAttr

TARGET_DLL_IMPORT(D) ==
  IF "TARGET_STATIC" \notin D
    THEN IF "_WIN32" \in D THEN DllImportAttr ELSE GnuDefaultAttr
    ELSE NoAttr

\* mutant: #ifdef written as #ifndef, the two roles swapped
TARGET_PUBLIC_API_Swapped(D) ==
  IF "TARGET_BUILD" \notin D THEN TARGET_DLL_EXPORT(D) ELSE TARGET_DLL_IMPORT(D)

TARGET_PUBLIC_API(D) ==
  IF "TARGET_BUILD" \in D THEN TARGET_DLL_EXPORT(D) ELSE TARGET_DLL_IMPORT(D)

\* line 24:  TARGET_PUBLIC_API int target();
target_declaration(D) == TARGET_PUBLIC_API(D)

----------------------------------------------------------------------------
(* target.c : body of target() *)

\* mutant: the comparison is >= instead of ==
AssertCond_AtLeast(x) == x >= BarSentinel

\* line 28: the condition of the assertion
AssertCond(x) == x = BarSentinel

\* line 28: does control reach line 29 ?
AssertPasses(active, x) == (~active) \/ AssertCond(x)

----------------------------------------------------------------------------
VARIABLES
  defs,      \* defs[b]    : macros defined on build b's command line
  unit,      \* unit[b]    : result of preprocessing target.c (with bar.h)
  fooUnit,   \* fooUnit[b] : result of preprocessing foo.h in a consumer
  pc,        \* pc[b]      : where build b's process is
  b,         \* b[x]       : the local  int b  of target() in build x
  entered,   \* entered[b] : invocations of target() started
  barCalls,  \* barCalls[b]: calls of bar() made
  rets       \* rets[b]    : values target() has returned to the caller

vars == <<defs, unit, fooUnit, pc, b, entered, barCalls, rets>>

\* mutant: the result depends on a counter that survives the call
ReturnValue_Counting(x) == TargetSentinel + Len(rets[x])

\* line 29: the value target() returns in build x
ReturnValue(x) == TargetSentinel

\* build "two" = build "one" with the two linkage flags toggled
Toggle(D, m) == IF m \in D THEN D \ {m} ELSE D \cup {m}
FlipLinkage(D) == Toggle(Toggle(D, "BAR_STATIC"), "TARGET_STATIC")

NoUnit == [built |-> FALSE, assertOn |-> FALSE, barDecl |-> "?", targetDecl |-> "?"]
NoFooUnit == [built |-> FALSE, fooDecl |-> "?"]

Init ==
  /\ defs \in [Builds -> SUBSET Macros]
  /\ defs["two"] = FlipLinkage(defs["one"])
  /\ unit = [x \in Builds |-> NoUnit]
  /\ fooUnit = [x \in Builds |-> NoFooUnit]
  /\ pc = [x \in Builds |-> "caller"]
  /\ b = [x \in Builds |-> Undef]
  /\ entered = [x \in Builds |-> 0]
  /\ barCalls = [x \in Builds |-> 0]
  /\ rets = [x \in Builds |-> <<>>]

\* preprocessing of target.c, lines 1-24 (bar.h is included at line 3).
\* When bar.h is skipped by its guard, bar is used at line 27 without a
\* declaration: a compiler that accepts the implicit  int bar()  produces
\* the unit below; one that rejects it produces no unit, which is the
\* behaviour in which this step is never taken.
CompileTarget(x) ==
  /\ ~unit[x].built
  /\ LET D == UndefNDEBUG(defs[x]) IN
       unit' = [unit EXCEPT ![x] =
                  [built |-> TRUE,
                   assertOn |-> assert_enabled(D),
                   barDecl |-> bar_declaration(D),
                   targetDecl |-> target_declaration(D)]]
  /\ UNCHANGED <<defs, fooUnit, pc, b, entered, barCalls, rets>>

\* preprocessing of foo.h, lines 1-24
CompileFoo(x) ==
  /\ ~fooUnit[x].built
  /\ fooUnit' = [fooUnit EXCEPT ![x] =
                   [built |-> TRUE, fooDecl |-> foo_declaration(defs[x])]]
  /\ UNCHANGED <<defs, unit, pc, b, entered, barCalls, rets>>

\* the caller invokes target(): control enters at line 26
CallTarget(x) ==
  /\ unit[x].built
  /\ pc[x] = "caller"
  /\ entered[x] < MaxCalls
  /\ pc' = [pc EXCEPT ![x] = "l27"]
  /\ b' = [b EXCEPT ![x] = Undef]
  /\ entered' = [entered EXCEPT ![x] = @ + 1]
  /\ UNCHANGED <<defs, unit, fooUnit, barCalls, rets>>

\* mutant: line 27 does not call bar(), b keeps its indeterminate content
Line27_NoCall(x) ==
  /\ pc[x] = "l27"
  /\ pc' = [pc EXCEPT ![x] = "l28"]
  /\ UNCHANGED <<defs, unit, fooUnit, b, entered, barCalls, rets>>

\* line 27:  int b = bar();
Line27(x) ==
  /\ pc[x] = "l27"
  /\ \E v \in BarValues : b' = [b EXCEPT ![x] = v]
  /\ barCalls' = [barCalls EXCEPT ![x] = @ + 1]
  /\ pc' = [pc EXCEPT ![x] = "l28"]
  /\ UNCHANGED <<defs, unit, fooUnit, entered, rets>>

\* line 28:  assert(b == 456);
Line28(x) ==
  /\ pc[x] = "l28"
  /\ pc' = [pc EXCEPT ![x] =
              IF AssertPasses(unit[x].assertOn, b[x]) THEN "l29" ELSE "aborted"]
  /\ UNCHANGED <<defs, unit, fooUnit, b, entered, barCalls, rets>>

\* line 29:  return 789;
Line29(x) ==
  /\ pc[x] = "l29"
  /\ rets' = [rets EXCEPT ![x] = Append(@, ReturnValue(x))]
  /\ pc' = [pc EXCEPT ![x] = "caller"]
  /\ UNCHANGED <<defs, unit, fooUnit, b, entered, barCalls>>

\* the program built from target.c: preprocessing, then calls of target()
Next ==
  \E x \in Builds :
    \/ CompileTarget(x)
    \/ CallTarget(x)
    \/ Line27(x)
    \/ Line28(x)
    \/ Line29(x)

Spec == Init /\ [][Next]_vars

\* preprocessing of the three files alone
NextHeaders ==
  \E x \in Builds :
    \/ CompileTarget(x)
    \/ CompileFoo(x)

SpecHeaders == Init /\ [][NextHeaders]_vars

TypeOK ==
  /\ defs \in [Builds -> SUBSET Macros]
  /\ pc \in [Builds -> {"caller", "l27", "l28", "l29", "aborted"}]
  /\ b \in [Builds -> BarValues \cup {Undef}]
  /\ entered \in [Builds -> 0..MaxCalls]
  /\ barCalls \in [Builds -> 0..MaxCalls]
  /\ \A x \in Builds : Len(rets[x]) <= MaxCalls

----------------------------------------------------------------------------
(* Vocabulary of the properties *)

Libs == {"BAR", "FOO", "TARGET"}

StaticFlag(L) ==
  CASE L = "BAR" -> "BAR_STATIC" [] L = "FOO" -> "FOO_STATIC" [] OTHER -> "TARGET_STATIC"

BuildFlag(L) ==
  CASE L = "BAR" -> "BAR_BUILD" [] L = "FOO" -> "FOO_BUILD" [] OTHER -> "TARGET_BUILD"

\* has build x processed the line that declares L's function ?
Declared(x, L) ==
  CASE L = "BAR" -> unit[x].built /\ unit[x].barDecl # NoDecl
    [] L = "FOO" -> fooUnit[x].built /\ fooUnit[x].fooDecl # NoDecl
    [] OTHER -> unit[x].built

\* the attribute on the declaration of L's function in build x
DeclAttr(x, L) ==
  CASE L = "BAR" -> unit[x].barDecl
    [] L = "FOO" -> fooUnit[x].fooDecl
    [] OTHER -> unit[x].targetDecl

IsWin(x) == "_WIN32" \in defs[x]
IsStatic(x, L) == StaticFlag(L) \in defs[x]
IsOwner(x, L) == BuildFlag(L) \in defs[x]

\* the three axes L's macro may read
OwnFlags(x, L) == <<IsWin(x), IsStatic(x, L), IsOwner(x, L)>>

\* the invocation of target() most recently started in build x is over
Finished(x) == entered[x] > 0 /\ pc[x] \in {"caller", "aborted"}

\* what the caller observes of that invocation
Outcome(x) ==
  IF pc[x] = "aborted"
    THEN [aborted |-> TRUE, value |-> 0]
    ELSE [aborted |-> FALSE, value |-> rets[x][Len(rets[x])]]

----------------------------------------------------------------------------
(* C1 - static linkage: whenever L_STATIC is defined, the declaration of   *)
(* L's function carries the empty attribute, on every platform and in      *)
(* either build role, for L in BAR, FOO, TARGET.  (Here and in C2, C3, C8  *)
(* the declarations are those the preprocessor reaches: a header skipped   *)
(* by its include guard defines no L_PUBLIC_API and expands nothing.)      *)
C1_StaticIsEmpty ==
  \A x \in Builds : \A L \in Libs :
    (Declared(x, L) /\ IsStatic(x, L)) => DeclAttr(x, L) = NoAttr

C1_Witness ==
  \E x \in Builds :
    /\ \A L \in Libs : Declared(x, L) /\ IsStatic(x, L) /\ DeclAttr(x, L) = NoAttr
    /\ IsWin(x) /\ IsOwner(x, "BAR") /\ ~IsOwner(x, "TARGET")

(* C2 - dynamic linkage on Windows: the owning build gets the export       *)
(* attribute, the consuming build the import attribute, and the two        *)
(* attributes differ.                                                      *)
C2_WindowsExportImport ==
  /\ DllExportAttr # DllImportAttr
  /\ \A x \in Builds : \A L \in Libs :
       (Declared(x, L) /\ ~IsStatic(x, L) /\ IsWin(x)) =>
          DeclAttr(x, L) = IF IsOwner(x, L) THEN DllExportAttr ELSE DllImportAttr

C2_Witness ==
  \E x \in Builds :
    /\ IsWin(x) /\ \A L \in Libs : Declared(x, L) /\ ~IsStatic(x, L)
    /\ IsOwner(x, "TARGET") /\ DeclAttr(x, "TARGET") = DllExportAttr
    /\ ~IsOwner(x, "BAR") /\ DeclAttr(x, "BAR") = DllImportAttr
    /\ IsOwner(x, "FOO") /\ DeclAttr(x, "FOO") = DllExportAttr

(* C3 - dynamic linkage off Windows: the declaration carries the default-  *)
(* visibility attribute whether or not L_BUILD is defined.                 *)
C3_DefaultVisibilityBothRoles ==
  \A x \in Builds : \A L \in Libs :
    (Declared(x, L) /\ ~IsStatic(x, L) /\ ~IsWin(x)) =>
       DeclAttr(x, L) = GnuDefaultAttr

C3_Witness ==
  \E x \in Builds :
    /\ ~IsWin(x) /\ \A L \in Libs : Declared(x, L) /\ ~IsStatic(x, L)
    /\ IsOwner(x, "TARGET") /\ ~IsOwner(x, "BAR") /\ ~IsOwner(x, "FOO")
    /\ \A L \in Libs : DeclAttr(x, L) = GnuDefaultAttr

(* C4 - target() returns 789 exactly when bar() returned 456: a call that  *)
(* came back to the caller saw 456 and delivered 789; a call in which      *)
(* bar() returned anything else ended in abort and delivered no value.     *)
C4_Returns789IffBar456 ==
  \A x \in Builds :
    /\ (Finished(x) /\ b[x] = BarSentinel) =>
          /\ pc[x] = "caller"
          /\ Len(rets[x]) = entered[x]
          /\ rets[x][Len(rets[x])] = TargetSentinel
    /\ (Finished(x) /\ b[x] # BarSentinel) =>
          /\ pc[x] = "aborted"
          /\ Len(rets[x]) = entered[x] - 1
    /\ pc[x] = "l29" => b[x] = BarSentinel

C4_Witness ==
  /\ pc["one"] = "caller" /\ b["one"] = BarSentinel /\ rets["one"] = <<TargetSentinel>>
  /\ pc["two"] = "aborted" /\ b["two"] = BarSentinel + 1 /\ rets["two"] = <<>>

(* C5 (as stated) - in target.c the declaration of target() carries the    *)
(* export-side attribute, never the import attribute, in every             *)
(* configuration of TARGET_STATIC, TARGET_BUILD and _WIN32.                *)
C5_DeclAlwaysExportSide ==
  \A x \in Builds :
    unit[x].built =>
      /\ unit[x].targetDecl = TARGET_DLL_EXPORT(defs[x])
      /\ unit[x].targetDecl # DllImportAttr

(* C5 (amended) - the declaration of target() carries the export-side      *)
(* attribute in every configuration but one: with _WIN32 defined and both  *)
(* TARGET_STATIC and TARGET_BUILD undefined it carries the import          *)
(* attribute.                                                              *)
C5_DeclExportSideUnlessWinConsumer ==
  \A x \in Builds :
    unit[x].built =>
      IF IsWin(x) /\ ~IsStatic(x, "TARGET") /\ ~IsOwner(x, "TARGET")
        THEN unit[x].targetDecl = DllImportAttr
        ELSE /\ unit[x].targetDecl = TARGET_DLL_EXPORT(defs[x])
             /\ unit[x].targetDecl # DllImportAttr

C5_Witness ==
  /\ unit["one"].built /\ unit["two"].built
  /\ IsWin("one") /\ IsOwner("one", "TARGET") /\ ~IsStatic("one", "TARGET")
  /\ unit["one"].targetDecl = DllExportAttr
  /\ unit["two"].targetDecl = NoAttr

(* C6 - repeated calls of target() return identical values: every value    *)
(* delivered in one process equals the first one (789), and each call      *)
(* starts from the same fresh local state.                                 *)
C6_RepeatedCallsAgree ==
  \A x \in Builds :
    /\ \A i \in 1..Len(rets[x]) :
         rets[x][i] = rets[x][1] /\ rets[x][i] = TargetSentinel
    /\ pc[x] = "l27" => b[x] = Undef

C6_Witness ==
  \E x \in Builds :
    /\ Len(rets[x]) >= 2 /\ pc[x] = "caller"
    /\ rets[x][1] = TargetSentinel /\ rets[x][2] = TargetSentinel

(* C7 - linkage mode is transparent: the two builds, which differ only in  *)
(* BAR_STATIC and TARGET_STATIC, show the caller the same outcome of       *)
(* target() (789, or abort) whenever bar() returned the same value in      *)
(* both, and the assertion is compiled the same way in both.               *)
C7_LinkageTransparent ==
  /\ (unit["one"].built /\ unit["two"].built) =>
        unit["one"].assertOn = unit["two"].assertOn
  /\ (Finished("one") /\ Finished("two") /\ b["one"] = b["two"]) =>
        Outcome("one") = Outcome("two")

C7_Witness ==
  /\ ~IsStatic("one", "BAR") /\ ~IsStatic("one", "TARGET")
  /\ IsStatic("two", "BAR") /\ IsStatic("two", "TARGET")
  /\ unit["one"].barDecl # unit["two"].barDecl
  /\ Finished("one") /\ Finished("two")
  /\ b["one"] = BarSentinel /\ b["two"] = BarSentinel
  /\ Outcome("one") = [aborted |-> FALSE, value |-> TargetSentinel]
  /\ Outcome("two") = [aborted |-> FALSE, value |-> TargetSentinel]

(* C8 - one pattern, parameterised by the library name only: any two       *)
(* declarations (of any libraries, in any builds) whose own flag triples   *)
(* (_WIN32, L_STATIC, L_BUILD) agree carry the same attribute, so no       *)
(* macro reads another library's flags.                                    *)
C8_SamePatternOwnFlagsOnly ==
  LET seen == {<<OwnFlags(x, "BAR"), unit[x].barDecl>> : x \in {y \in Builds : Declared(y, "BAR")}}
                \cup
              {<<OwnFlags(x, "TARGET"), unit[x].targetDecl>> : x \in {y \in Builds : unit[y].built}}
                \cup
              {<<OwnFlags(x, "FOO"), fooUnit[x].fooDecl>> : x \in {y \in Builds : Declared(y, "FOO")}}
  IN  \A p \in seen, q \in seen : p[1] = q[1] => p[2] = q[2]

C8_Witness ==
  \E x \in Builds :
    /\ \A L \in Libs : Declared(x, L) /\ OwnFlags(x, L) = <<TRUE, FALSE, TRUE>>
    /\ \A L \in Libs : DeclAttr(x, L) = DllExportAttr
    /\ Declared("one", "FOO") /\ Declared("two", "FOO")
    /\ defs["one"] # defs["two"]

(* C9 - fixed order inside target(): bar() is called exactly once per      *)
(* invocation, before the check; the check comes before the return; a      *)
(* value is delivered only after both.                                     *)
C9_CallThenCheckThenReturn ==
  \A x \in Builds :
    /\ barCalls[x] = entered[x] - (IF pc[x] = "l27" THEN 1 ELSE 0)
    /\ Len(rets[x]) = entered[x] - (IF pc[x] = "caller" THEN 0 ELSE 1)
    /\ pc[x] = "l27" => b[x] = Undef
    /\ pc[x] \in {"l28", "l29", "aborted"} => b[x] \in BarValues
    /\ pc[x] = "l29" => AssertCond(b[x])

C9_Witness ==
  \E x \in Builds :
    /\ pc[x] = "caller" /\ entered[x] = 1 /\ barCalls[x] = 1
    /\ b[x] = BarSentinel /\ rets[x] = <<TargetSentinel>>

(* C10 - the check is active whatever NDEBUG setting the build passes:     *)
(* the compiled unit has the assertion enabled, and even with NDEBUG on    *)
(* the command line no call delivers a value after bar() returned          *)
(* something other than 456.                                               *)
C10_AssertSurvivesNDEBUG ==
  \A x \in Builds :
    /\ unit[x].built => unit[x].assertOn
    /\ ("NDEBUG" \in defs[x] /\ pc[x] = "l29") => b[x] = BarSentinel
    /\ ("NDEBUG" \in defs[x] /\ Finished(x) /\ Len(rets[x]) = entered[x]) =>
          b[x] = BarSentinel

C10_Witness ==
  \E x \in Builds :
    /\ "NDEBUG" \in defs[x] /\ unit[x].assertOn
    /\ pc[x] = "aborted" /\ b[x] = BarSentinel - 1 /\ rets[x] = <<>>

====
